---- MODULE Spec2Model ----
(***************************************************************************)
(* Floating-IP pool range engine of galaxy (pkg/ipam/floatingip).          *)
(*                                                                         *)
(* A FloatingIPPool keeps the available addresses of one floating-IP       *)
(* subnet as a list of inclusive ranges.  The model covers the JSON codec  *)
(* (UnmarshalJSON, fipCheck), the mutators InsertIP / RemoveIP / tryMerge  *)
(* and the helper Minus, translated statement by statement from            *)
(* floatingip.go.  Addresses are unsigned integers of AddrBits bits (the   *)
(* source uses uint32); slices are 1-based sequences, so the Go index i    *)
(* is the index i+1 here.                                                  *)
(***************************************************************************)
EXTENDS Integers, Sequences, FiniteSets, TLC

\* Width of an address in bits (32 in the source, scaled down for checking).
AddrBits == 4

\* Longest "ips" list of a configuration document.
MaxIPs == 2

AddrMod == 2 ^ AddrBits

AddrMax == AddrMod - 1

Addrs == 0 .. AddrMax

\* Optional (pointer / nil-able) values: <<>> is nil, <<x>> is a value x.
None == <<>>

Some(x) == <<x>>

----------------------------------------------------------------------------
(* Address helpers.                                                        *)

\* uint32 arithmetic of nets.IPToInt values: results are reduced modulo 2^w.
U32(x) == x % AddrMod

\* An address (net.IP) is modelled by the unsigned integer nets.IPToInt gives
\* it; nets.IntToIP takes a uint32, so its argument is reduced to the width.
IntToIP(n) == U32(n)

\* Minus: both operands are widened to int64 before the subtraction, so the
\* difference is exact and signed.
Minus(a, b) == a - b

\* net.IPNet.Contains: ip and the network address agree on the masked bits.
\* A mask is its number of leading ones.
MaskIP(ip, ones) == (ip \div (2 ^ (AddrBits - ones))) * (2 ^ (AddrBits - ones))

NetContains(n, ip) == MaskIP(ip, n.Mask) = MaskIP(n.IP, n.Mask)

\* nets.IPRange.Contains: First <= ip <= Last.
RangeContains(ipr, ip) == ipr.First <= ip /\ ip <= ipr.Last

\* nets.IPtoIPRange: the singleton range of an address.
IPtoIPRange(ip) == [First |-> ip, Last |-> ip]

----------------------------------------------------------------------------
(* Configuration documents (FloatingIPPoolConf) and their range texts.     *)

\* A range text of the "ips" list: <<"ip", a, a>> is a bare address,
\* <<"range", a, b>> is "a-b" and <<"bad", 0, 0>> is text that is neither.
IpText(a) == <<"ip", a, a>>

RangeText(a, b) == <<"range", a, b>>

BadText == <<"bad", 0, 0>>

\* nets.ParseIPRange: nil for unparsable text, else the range the text names.
ParseIPRange(str) ==
    IF str[1] = "bad" THEN None
    ELSE IF str[1] = "ip" THEN Some(IPtoIPRange(str[2]))
    ELSE Some([First |-> str[2], Last |-> str[3]])

ErrNone == "ok"

ErrJSON == "json syntax error"

ErrRoutableSubnet == "routable subnet is empty"

\* A gateway error with the text of the subnet error.
ErrGateway_AsSubnet == "subnet is empty"

ErrGateway == "gateway is empty"

ErrSubnet == "subnet is empty"

ErrInvalidRange == "invalid ip range"

ErrNotInSubnet == "ip range not in subnet"

ErrOrder == "ip range can be merge to one or has wrong order"

\* The zero value of FloatingIPPool.
ZeroPool ==
    [RoutableSubnet |-> None, Gateway |-> None, Mask |-> None, Vlan |-> 0,
     IPRanges |-> <<>>]

\* SparseSubnet.IPNet of a loaded pool: the subnet of Gateway under Mask.
IPNet(fip) == [IP |-> fip.Gateway[1], Mask |-> fip.Mask[1]]

\* fipCheck, from the loop index i on: every range inside the subnet, and
\* from the second range on First_i > Last_{i-1} + 1 in uint32 arithmetic.
RECURSIVE fipCheckFrom(_, _)
fipCheckFrom(fip, i) ==
    LET R == fip.IPRanges
        net == IPNet(fip)
    IN  IF i > Len(R) THEN ErrNone
        ELSE IF ~NetContains(net, R[i].First) \/ ~NetContains(net, R[i].Last)
             THEN ErrNotInSubnet
        ELSE IF i # 1 /\ R[i].First <= U32(R[i - 1].Last + 1)
             THEN ErrOrder
        ELSE fipCheckFrom(fip, i + 1)

fipCheck(fip) == fipCheckFrom(fip, 1)

\* The loop of UnmarshalJSON over conf.IPs: appends each parsed range to
\* fip.IPRanges and stops at the first text that does not parse.
RECURSIVE ParseIPs(_, _, _)
ParseIPs(R, ips, k) ==
    IF k > Len(ips) THEN [IPRanges |-> R, err |-> ErrNone]
    ELSE LET ipr == ParseIPRange(ips[k])
         IN  IF ipr # None THEN ParseIPs(Append(R, ipr[1]), ips, k + 1)
             ELSE [IPRanges |-> R, err |-> ErrInvalidRange]

\* UnmarshalJSON: the pool after the call and the error returned.  Every
\* assignment made before an early return stays in the pool.
UnmarshalJSON(fip, conf) ==
    IF ~conf.json THEN [fip |-> fip, err |-> ErrJSON]
    ELSE IF conf.routableSubnet = None THEN [fip |-> fip, err |-> ErrRoutableSubnet]
    ELSE
      LET rs == conf.routableSubnet[1]
          f1 == [fip EXCEPT !.RoutableSubnet =
                     Some([IP |-> MaskIP(rs.IP, rs.Mask), Mask |-> rs.Mask])]
      IN  IF conf.gateway = None THEN [fip |-> f1, err |-> ErrGateway]
          ELSE
            LET f2 == [f1 EXCEPT !.Gateway = conf.gateway]
            IN  IF conf.subnet = None THEN [fip |-> f2, err |-> ErrSubnet]
                ELSE
                  LET f3 == [f2 EXCEPT !.Mask = Some(conf.subnet[1].Mask),
                                       !.Vlan = conf.vlan]
                      p  == ParseIPs(f3.IPRanges, conf.ips, 1)
                      f4 == [f3 EXCEPT !.IPRanges = p.IPRanges]
                  IN  IF p.err # ErrNone THEN [fip |-> f4, err |-> p.err]
                      ELSE [fip |-> f4, err |-> fipCheck(f4)]

\* nets.IPRange.String: a range of one address prints as that address, any
\* other range as "first-last".
RangeString(ipr) ==
    IF ipr.First = ipr.Last THEN IpText(ipr.First) ELSE RangeText(ipr.First, ipr.Last)

\* MarshalJSON: the document of a pool.
MarshalJSON(fip) ==
    [json |-> TRUE,
     routableSubnet |-> fip.RoutableSubnet,
     subnet |-> Some([IP |-> MaskIP(fip.Gateway[1], fip.Mask[1]), Mask |-> fip.Mask[1]]),
     gateway |-> fip.Gateway,
     vlan |-> fip.Vlan,
     ips |-> [i \in 1 .. Len(fip.IPRanges) |-> RangeString(fip.IPRanges[i])]]

----------------------------------------------------------------------------
(* The range list: Contains, InsertIP, tryMerge, RemoveIP.                 *)

\* FloatingIPPool.Contains: some range contains ip.
Contains(fip, ip) == \E i \in 1 .. Len(fip.IPRanges) : RangeContains(fip.IPRanges[i], ip)

\* The list R without its element i.
DeleteAt(R, i) == SubSeq(R, 1, i - 1) \o SubSeq(R, i + 1, Len(R))

\* The list R with x put in front of its element i.
InsertAt(R, i, x) == SubSeq(R, 1, i - 1) \o <<x>> \o SubSeq(R, i, Len(R))

\* A tryMerge that never merges.
tryMerge_NeverMerges(R, i) == R

\* tryMerge(i): nothing when there is no range i or no range i+1; ranges i
\* and i+1 become one when range i+1 starts right after range i ends.
tryMerge(R, i) ==
    IF i < 1 \/ i = Len(R) THEN R
    ELSE IF Minus(R[i + 1].First, R[i].Last) = 1
         THEN DeleteAt([R EXCEPT ![i].Last = R[i + 1].Last], i + 1)
    ELSE R

\* What the loop of InsertIP finds from the loop index i on: the index it
\* stops at and the branch it takes there ("held": a range holds ip already;
\* "before": ip goes in front of range i; "first", "last": ip extends range i
\* at that end; "append": the loop ran out).
RECURSIVE InsertFind(_, _, _)
InsertFind(R, ip, i) ==
    IF i > Len(R) THEN [act |-> "append", i |-> i]
    ELSE IF RangeContains(R[i], ip) THEN [act |-> "held", i |-> i]
    ELSE LET ret == Minus(R[i].First, ip)
         IN  IF ret > 1 THEN [act |-> "before", i |-> i]
             ELSE IF ret = 1 THEN [act |-> "first", i |-> i]
             ELSE IF Minus(R[i].Last, ip) = -1 THEN [act |-> "last", i |-> i]
             ELSE InsertFind(R, ip, i + 1)

\* The statements of the branch p of InsertIP, run on the list R.
InsertWrite(R, ip, p) ==
    IF p.act = "append" THEN Append(R, IPtoIPRange(ip))
    ELSE IF p.act = "before" THEN InsertAt(R, p.i, IPtoIPRange(ip))
    ELSE IF p.act = "first" THEN tryMerge([R EXCEPT ![p.i].First = ip], p.i - 1)
    ELSE tryMerge([R EXCEPT ![p.i].Last = ip], p.i)

\* The scan of InsertIP from the loop index i on.
InsertScan(R, ip, i) ==
    LET p == InsertFind(R, ip, i)
    IN  IF p.act = "held" THEN [IPRanges |-> R, ret |-> FALSE]
        ELSE [IPRanges |-> InsertWrite(R, ip, p), ret |-> TRUE]

\* An InsertIP without the subnet test at its head.
InsertIP_NoSubnetTest(fip, ip) ==
    IF Len(fip.IPRanges) = 0
    THEN [IPRanges |-> <<IPtoIPRange(ip)>>, ret |-> TRUE]
    ELSE InsertScan(fip.IPRanges, ip, 1)

\* An InsertIP that, like RemoveIP, gives up on an empty list.
InsertIP_GivesUpOnEmpty(fip, ip) ==
    IF ~NetContains(IPNet(fip), ip) THEN [IPRanges |-> fip.IPRanges, ret |-> FALSE]
    ELSE IF Len(fip.IPRanges) = 0 THEN [IPRanges |-> fip.IPRanges, ret |-> FALSE]
    ELSE InsertScan(fip.IPRanges, ip, 1)

\* InsertIP: the range list after the call and the value returned.
InsertIP(fip, ip) ==
    IF ~NetContains(IPNet(fip), ip) THEN [IPRanges |-> fip.IPRanges, ret |-> FALSE]
    ELSE IF Len(fip.IPRanges) = 0
         THEN [IPRanges |-> <<IPtoIPRange(ip)>>, ret |-> TRUE]
    ELSE InsertScan(fip.IPRanges, ip, 1)

\* A switch of RemoveIP whose last case keeps the lower part of the range
\* only.
RemoveAt_NoSplit(R, ip, i, ipRange) ==
    IF ipRange.First = ipRange.Last THEN DeleteAt(R, i)
    ELSE IF ipRange.First = ip
         THEN [R EXCEPT ![i] = [ipRange EXCEPT !.First = IntToIP(ipRange.First + 1)]]
    ELSE [R EXCEPT ![i] = [ipRange EXCEPT !.Last = IntToIP(ip - 1)]]

\* The switch of RemoveIP at loop index i, where ipRange is the copy of
\* range i the loop took, run on the list R.
RemoveAt(R, ip, i, ipRange) ==
    LET ipn == ip
    IN  IF ipRange.First = ipRange.Last THEN DeleteAt(R, i)
        ELSE IF ipRange.First = ip
             THEN [R EXCEPT ![i] = [ipRange EXCEPT !.First = IntToIP(ipRange.First + 1)]]
        ELSE IF ipRange.Last = ip
             THEN [R EXCEPT ![i] = [ipRange EXCEPT !.Last = IntToIP(ipRange.Last - 1)]]
        ELSE [InsertAt(R, i + 1, ipRange) EXCEPT ![i].Last = IntToIP(ipn - 1),
                                                 ![i + 1].First = IntToIP(ipn + 1)]

\* The index of the first range from i on that contains ip, 0 when none does.
RECURSIVE RemoveFind(_, _, _)
RemoveFind(R, ip, i) ==
    IF i > Len(R) THEN 0
    ELSE IF RangeContains(R[i], ip) THEN i
    ELSE RemoveFind(R, ip, i + 1)

\* The loop of RemoveIP from the loop index i on.
RemoveScan(R, ip, i) ==
    LET k == RemoveFind(R, ip, i)
    IN  IF k = 0 THEN [IPRanges |-> R, ret |-> FALSE]
        ELSE [IPRanges |-> RemoveAt(R, ip, k, R[k]), ret |-> TRUE]

\* RemoveIP: the range list after the call and the value returned.
RemoveIP(fip, ip) ==
    IF ~NetContains(IPNet(fip), ip) THEN [IPRanges |-> fip.IPRanges, ret |-> FALSE]
    ELSE IF Len(fip.IPRanges) = 0 THEN [IPRanges |-> fip.IPRanges, ret |-> FALSE]
    ELSE RemoveScan(fip.IPRanges, ip, 1)

----------------------------------------------------------------------------
(* Inputs.                                                                 *)

\* Masks of the configured floating-IP subnets: four addresses each.
Masks == {AddrBits - 2}

\* Gateways of the configured subnets: one in the block 4..7, one in the
\* last block of the address space (which holds the address AddrMax).
Gateways == {2 ^ 2 + 1, AddrMod - 3}

\* The addresses of the subnet of gateway gw under mask ones.
SubnetAddrs(gw, ones) == {a \in Addrs : MaskIP(a, ones) = MaskIP(gw, ones)}

\* The address right below the subnet and the one right above it (modulo
\* the width): the addresses outside the subnet that calls are tried with.
Outside(gw, ones) ==
    {U32(MaskIP(gw, ones) + AddrMod - 1), U32(MaskIP(gw, ones) + 2 ^ (AddrBits - ones))}

\* The range texts a document for gateway gw is written with: every bare
\* address and every pair, in either order, over the subnet and the address
\* right below it, and one unparsable text.
Texts(gw, ones) ==
    LET A == SubnetAddrs(gw, ones) \cup {U32(MaskIP(gw, ones) + AddrMod - 1)}
    IN  {IpText(a) : a \in A} \cup {RangeText(a, b) : a \in A, b \in A} \cup {BadText}

\* All sequences over S of length at most n.
SeqsUpTo(S, n) == UNION {[1 .. k -> S] : k \in 0 .. n}

RoutableSubnets == {[IP |-> 3, Mask |-> AddrBits - 2]}

Vlans == {0, 2}

----------------------------------------------------------------------------
(* The state machine: one pool, loaded once from a document and then       *)
(* mutated by InsertIP and RemoveIP calls, one call at a time.             *)

VARIABLES
    fip,    \* the pool: RoutableSubnet, Gateway, Mask, Vlan, IPRanges
    phase,  \* "fresh": not decoded yet; "loaded": decoded; "failed": decode failed
    err,    \* the error the decode returned
    call,   \* the last call made on the pool: its name, argument and result
    old,    \* the pool as it was when the last call was made
    thr,    \* of each thread that calls into the pool: where its call stands
    s,      \* a FloatingIPSlice being sorted
    s0,     \* that slice as it was given to the sort
    lock,   \* the holder of the pool's lock, "free" when nobody holds it
    store,  \* the record store: the addresses with a record, and the last call made to it
    job     \* of each caller of the IPAM: the allocation or release it is carrying out

vars == <<fip, phase, err, call, old, thr, s, s0, lock, store, job>>

\* The threads that share one pool.
Threads == {"t1", "t2"}

\* The record store with no record and no call made, and a caller at rest.
NoStore == [records |-> {}, last |-> [op |-> "none", ip |-> 0, by |-> "none"]]

NoJob == [pc |-> "idle", op |-> "none", ip |-> 0, ret |-> FALSE, n |-> 0]

\* Nobody holds the lock, the store is empty and no caller is under way.
IpamAtRest == lock = "free" /\ store = NoStore /\ job = [t \in Threads |-> NoJob]

\* A thread that has made no call.
Idle == [pc |-> "idle", op |-> "none", ip |-> 0, act |-> "none", i |-> 0,
         ipRange |-> IPtoIPRange(0), ret |-> FALSE]

Init ==
    /\ fip = ZeroPool
    /\ phase = "fresh"
    /\ err = ErrNone
    /\ call = [op |-> "new", ip |-> 0, ret |-> TRUE]
    /\ old = ZeroPool
    /\ thr = [t \in Threads |-> Idle]
    /\ s = <<>> /\ s0 = <<>>
    /\ IpamAtRest

\* json.Unmarshal of document conf into the pool; the call keeps the document.
Decode(conf) ==
    /\ LET r == UnmarshalJSON(fip, conf)
       IN  /\ fip' = r.fip
           /\ err' = r.err
           /\ phase' = IF r.err = ErrNone THEN "loaded" ELSE "failed"
           /\ call' = [op |-> "UnmarshalJSON", ip |-> 0, ret |-> r.err = ErrNone, conf |-> conf]
           /\ old' = fip
    /\ UNCHANGED <<thr, s, s0, lock, store, job>>

\* A document with every required field.
DecodeFull ==
    /\ phase = "fresh"
    /\ \E rs \in RoutableSubnets, gw \in Gateways, m \in Masks, v \in Vlans :
         \E ips \in SeqsUpTo(Texts(gw, m), MaxIPs) :
             Decode([json |-> TRUE, routableSubnet |-> Some(rs), gateway |-> Some(gw),
                     subnet |-> Some([IP |-> MaskIP(gw, m), Mask |-> m]),
                     vlan |-> v, ips |-> ips])

\* A document that is no JSON, or that lacks some of the required fields.
DecodePartial ==
    /\ phase = "fresh"
    /\ \E j \in BOOLEAN, rs \in {None} \cup {Some(x) : x \in RoutableSubnets},
          g \in {None} \cup {Some(x) : x \in Gateways},
          sn \in {None} \cup {Some([IP |-> 0, Mask |-> x]) : x \in Masks}, v \in Vlans :
           /\ ~j \/ rs = None \/ g = None \/ sn = None
           /\ \E ips \in SeqsUpTo({IpText(2 ^ 2 + 2), BadText}, 1) :
                  Decode([json |-> j, routableSubnet |-> rs, gateway |-> g, subnet |-> sn,
                          vlan |-> v, ips |-> ips])

\* The document the pool was loaded from, decoded into it a second time.
DecodeAgain ==
    /\ phase = "loaded"
    /\ call.op = "UnmarshalJSON" /\ call.ret
    /\ old = ZeroPool
    /\ Decode(call.conf)

\* The addresses calls are made with: the pool's subnet and its neighbours.
CallAddrs == SubnetAddrs(fip.Gateway[1], fip.Mask[1]) \cup Outside(fip.Gateway[1], fip.Mask[1])

Insert(ip) ==
    /\ LET r == InsertIP(fip, ip)
       IN  /\ fip' = [fip EXCEPT !.IPRanges = r.IPRanges]
           /\ call' = [op |-> "InsertIP", ip |-> ip, ret |-> r.ret]
           /\ old' = fip
    /\ UNCHANGED <<phase, err, thr, s, s0, lock, store, job>>

Remove(ip) ==
    /\ LET r == RemoveIP(fip, ip)
       IN  /\ fip' = [fip EXCEPT !.IPRanges = r.IPRanges]
           /\ call' = [op |-> "RemoveIP", ip |-> ip, ret |-> r.ret]
           /\ old' = fip
    /\ UNCHANGED <<phase, err, thr, s, s0, lock, store, job>>

\* A release of some address back into the loaded pool.
Release == phase = "loaded" /\ \E ip \in CallAddrs : Insert(ip)

\* A reservation of some address of the loaded pool.
Reserve == phase = "loaded" /\ \E ip \in CallAddrs : Remove(ip)

Next ==
    \/ DecodeFull
    \/ DecodePartial
    \/ Release
    \/ Reserve

Spec == Init /\ [][Next]_vars

\* The codec alone: a pool is loaded from a document, and then the same
\* document is decoded into it once more.
NextRepeat ==
    \/ DecodeFull
    \/ DecodeAgain

SpecRepeat == Init /\ [][NextRepeat]_vars

----------------------------------------------------------------------------
(* Threads that call into one pool at the same time.  InsertIP and RemoveIP *)
(* take no lock, so a call is two steps another thread can come between:    *)
(* its loop finds the place, its branch writes there.                       *)

\* The documents the shared pool is loaded from.
SharedConfs ==
    LET gw == 2 ^ 2 + 1
        m == AddrBits - 2
        A == SubnetAddrs(gw, m)
        T == {IpText(a) : a \in A} \cup {RangeText(x[1], x[2]) : x \in {y \in A \X A : y[1] <= y[2]}}
    IN  {[json |-> TRUE, routableSubnet |-> Some([IP |-> 3, Mask |-> m]), gateway |-> Some(gw),
          subnet |-> Some([IP |-> MaskIP(gw, m), Mask |-> m]), vlan |-> 0, ips |-> ips] :
           ips \in SeqsUpTo(T, MaxIPs)}

\* A pool loaded from a document, and two threads about to call into it.
InitShared ==
    \E conf \in SharedConfs :
        LET r == UnmarshalJSON(ZeroPool, conf)
        IN  /\ r.err = ErrNone
            /\ fip = r.fip
            /\ old = r.fip
            /\ phase = "loaded"
            /\ err = ErrNone
            /\ call = [op |-> "UnmarshalJSON", ip |-> 0, ret |-> TRUE]
            /\ thr = [t \in Threads |-> Idle]
            /\ s = <<>> /\ s0 = <<>>
            /\ IpamAtRest

\* Thread t enters InsertIP(ip) and runs its tests and its loop up to the
\* branch that writes.
InsertFinds(t) ==
    /\ thr[t].pc = "idle"
    /\ \E ip \in CallAddrs :
         LET p == IF Len(fip.IPRanges) = 0 THEN [act |-> "append", i |-> 1]
                  ELSE InsertFind(fip.IPRanges, ip, 1)
             c == [Idle EXCEPT !.op = "InsertIP", !.ip = ip]
         IN  thr' = [thr EXCEPT ![t] =
                 IF ~NetContains(IPNet(fip), ip) \/ p.act = "held"
                 THEN [c EXCEPT !.pc = "done"]
                 ELSE [c EXCEPT !.pc = "write", !.act = p.act, !.i = p.i]]
    /\ UNCHANGED <<fip, phase, err, call, old, s, s0, lock, store, job>>

\* Thread t enters RemoveIP(ip) and runs its tests and its loop up to the
\* switch, holding its copy of the range that contains ip.
RemoveFinds(t) ==
    /\ thr[t].pc = "idle"
    /\ \E ip \in CallAddrs :
         LET k == RemoveFind(fip.IPRanges, ip, 1)
             c == [Idle EXCEPT !.op = "RemoveIP", !.ip = ip]
         IN  thr' = [thr EXCEPT ![t] =
                 IF ~NetContains(IPNet(fip), ip) \/ k = 0
                 THEN [c EXCEPT !.pc = "done"]
                 ELSE [c EXCEPT !.pc = "write", !.i = k, !.ipRange = fip.IPRanges[k]]]
    /\ UNCHANGED <<fip, phase, err, call, old, s, s0, lock, store, job>>

\* Thread t runs the statements of its branch on the list as it is by now and
\* returns true; an index beyond the list by now is a run-time panic.
Writes(t) ==
    /\ thr[t].pc = "write"
    /\ LET c == thr[t]
           R == fip.IPRanges
           bad == IF c.op = "RemoveIP" THEN c.i > Len(R)
                  ELSE IF c.act = "before" THEN c.i - 1 > Len(R)
                  ELSE IF c.act = "append" THEN FALSE
                  ELSE c.i > Len(R)
       IN  IF bad
           THEN /\ thr' = [thr EXCEPT ![t].pc = "panic"]
                /\ fip' = fip
           ELSE /\ thr' = [thr EXCEPT ![t].pc = "done", ![t].ret = TRUE]
                /\ fip' = [fip EXCEPT !.IPRanges =
                               IF c.op = "RemoveIP" THEN RemoveAt(R, c.ip, c.i, c.ipRange)
                               ELSE InsertWrite(R, c.ip, [act |-> c.act, i |-> c.i])]
    /\ UNCHANGED <<phase, err, call, old, s, s0, lock, store, job>>

NextShared ==
    \E t \in Threads :
        \/ InsertFinds(t)
        \/ RemoveFinds(t)
        \/ Writes(t)

SpecShared == InitShared /\ [][NextShared]_vars

----------------------------------------------------------------------------
(* A slice of pools put in order by sort.Sort, which reads the slice only   *)
(* through Less and changes it only through Swap.                           *)

\* Longest slice of pools.
MaxPools == 3

\* nets.FirstAndLastIP, its first result: the first address of a subnet, as
\* a number.
FirstIP(n) == MaskIP(n.IP, n.Mask)

\* A Less that is true on equal first addresses too.
Less_OrEqual(S, i, j) == FirstIP(S[i].RoutableSubnet[1]) <= FirstIP(S[j].RoutableSubnet[1])

\* FloatingIPSlice.Less
Less(S, i, j) == FirstIP(S[i].RoutableSubnet[1]) < FirstIP(S[j].RoutableSubnet[1])

\* FloatingIPSlice.Swap
Swap(S, i, j) == [S EXCEPT ![i] = S[j], ![j] = S[i]]

\* The pools of the slices: routable subnets of four addresses, two of them
\* with the same first address, and a VLAN tag that tells equal subnets apart.
SlicePools ==
    {[ZeroPool EXCEPT !.RoutableSubnet = Some([IP |-> a, Mask |-> AddrBits - 2]), !.Vlan = v] :
        a \in {0, 2 ^ 2, 2 ^ 2 + 2, 2 ^ 3}, v \in {0, 2}}

InitSort ==
    /\ s0 \in SeqsUpTo(SlicePools, MaxPools)
    /\ s = s0
    /\ fip = ZeroPool
    /\ phase = "fresh"
    /\ err = ErrNone
    /\ call = [op |-> "new", ip |-> 0, ret |-> TRUE]
    /\ old = ZeroPool
    /\ thr = [t \in Threads |-> Idle]
    /\ IpamAtRest

\* One exchange of the sort: two pools that Less finds in the wrong order
\* are swapped.
SortSwap ==
    /\ \E i \in 1 .. Len(s), j \in 1 .. Len(s) :
          /\ i < j
          /\ Less(s, j, i)
          /\ s' = Swap(s, i, j)
    /\ UNCHANGED <<s0, fip, phase, err, call, old, thr, lock, store, job>>

NextSort == SortSwap

\* The sort goes on while some pair is in the wrong order.
SpecSort == InitSort /\ [][NextSort]_vars /\ WF_vars(SortSwap)

----------------------------------------------------------------------------
(* Allocation and release through the record store.  The callers of the    *)
(* pool are not part of floatingip.go; their steps follow the control flow *)
(* the design states: take the pool's lock, reserve with RemoveIP or        *)
(* release with InsertIP, give the lock back, then call the store.          *)

\* The most allocations and releases one caller carries out.
MaxJobs == 1

\* crdIpam.createFloatingIP: the store's Create fails when the address has a
\* record already.
createFloatingIP(records, ip) == [records |-> records \cup {ip}, err |-> ip \in records]

\* crdIpam.deleteFloatingIP: the store's Delete fails when the address has no
\* record.
deleteFloatingIP(records, ip) == [records |-> records \ {ip}, err |-> ip \notin records]

InitStore ==
    /\ \E conf \in SharedConfs :
          LET r == UnmarshalJSON(ZeroPool, conf)
          IN  /\ r.err = ErrNone
              /\ fip = r.fip
              /\ old = r.fip
    /\ phase = "loaded"
    /\ err = ErrNone
    /\ call = [op |-> "UnmarshalJSON", ip |-> 0, ret |-> TRUE]
    /\ thr = [t \in Threads |-> Idle]
    /\ s = <<>> /\ s0 = <<>>
    /\ IpamAtRest

\* Caller t takes up the allocation (CNI ADD) or the release (CNI DEL) of ip.
Begin(t) ==
    /\ job[t].pc = "idle"
    /\ job[t].n < MaxJobs
    /\ \E op \in {"allocate", "release"}, ip \in CallAddrs :
          job' = [job EXCEPT ![t] = [pc |-> "begun", op |-> op, ip |-> ip, ret |-> FALSE,
                                     n |-> job[t].n + 1]]
    /\ UNCHANGED <<fip, phase, err, call, old, thr, s, s0, lock, store>>

\* Caller t takes the pool's lock.
AcquireLock(t) ==
    /\ job[t].pc = "begun"
    /\ lock = "free"
    /\ lock' = t
    /\ job' = [job EXCEPT ![t].pc = "locked"]
    /\ UNCHANGED <<fip, phase, err, call, old, thr, s, s0, store>>

\* The pool step under the lock: RemoveIP for an allocation, InsertIP for a
\* release.
PoolStep(t) ==
    /\ job[t].pc = "locked"
    /\ LET r == IF job[t].op = "allocate" THEN RemoveIP(fip, job[t].ip)
                ELSE InsertIP(fip, job[t].ip)
       IN  /\ fip' = [fip EXCEPT !.IPRanges = r.IPRanges]
           /\ call' = [op |-> IF job[t].op = "allocate" THEN "RemoveIP" ELSE "InsertIP",
                       ip |-> job[t].ip, ret |-> r.ret]
           /\ old' = fip
           /\ job' = [job EXCEPT ![t].pc = "pooled", ![t].ret = r.ret]
    /\ UNCHANGED <<phase, err, thr, s, s0, lock, store>>

\* Caller t gives the lock back.
ReleaseLock(t) ==
    /\ job[t].pc = "pooled"
    /\ lock' = "free"
    /\ job' = [job EXCEPT ![t].pc = "unlocked"]
    /\ UNCHANGED <<fip, phase, err, call, old, thr, s, s0, store>>

\* A caller that goes to the store whatever the pool step returned.
CallsStore_Always(t) == job[t].pc = "unlocked"

\* Caller t goes to the store: its pool step has returned true.
CallsStore(t) == job[t].pc = "unlocked" /\ job[t].ret

\* The store call of caller t: create for an allocation, delete for a
\* release.
StoreStep(t) ==
    /\ CallsStore(t)
    /\ LET r == IF job[t].op = "allocate" THEN createFloatingIP(store.records, job[t].ip)
                ELSE deleteFloatingIP(store.records, job[t].ip)
       IN  store' = [records |-> r.records,
                     last |-> [op |-> IF job[t].op = "allocate" THEN "create" ELSE "delete",
                               ip |-> job[t].ip, by |-> t]]
    /\ job' = [job EXCEPT ![t] = [NoJob EXCEPT !.n = job[t].n]]
    /\ UNCHANGED <<fip, phase, err, call, old, thr, s, s0, lock>>

\* Caller t gives up: its pool step has returned false.
GiveUp(t) ==
    /\ job[t].pc = "unlocked"
    /\ ~job[t].ret
    /\ job' = [job EXCEPT ![t] = [NoJob EXCEPT !.n = job[t].n]]
    /\ UNCHANGED <<fip, phase, err, call, old, thr, s, s0, lock, store>>

NextStore ==
    \E t \in Threads :
        \/ Begin(t)
        \/ AcquireLock(t)
        \/ PoolStep(t)
        \/ ReleaseLock(t)
        \/ StoreStep(t)
        \/ GiveUp(t)

SpecStore == InitStore /\ [][NextStore]_vars

----------------------------------------------------------------------------
(* Vocabulary of the properties.                                           *)

\* I1: the ranges are sorted strictly ascending by First.
I1(R) == \A i \in 1 .. Len(R) - 1 : R[i].First < R[i + 1].First

\* I2: consecutive ranges neither overlap nor touch.
I2(R) == \A i \in 1 .. Len(R) - 1 : R[i + 1].First > R[i].Last + 1

\* I3: both endpoints of every range lie in the pool's subnet.
I3(p) ==
    \A i \in 1 .. Len(p.IPRanges) :
        /\ NetContains(IPNet(p), p.IPRanges[i].First)
        /\ NetContains(IPNet(p), p.IPRanges[i].Last)

\* The set of available addresses: the union of the ranges.
Avail(p) == {a \in Addrs : Contains(p, a)}

\* The last call was InsertIP / RemoveIP / a decode.
Inserted == call.op = "InsertIP"

Removed == call.op = "RemoveIP"

Decoded == call.op = "UnmarshalJSON"

\* Some range of the list has its First above its Last.
Reversed(R) == \E i \in 1 .. Len(R) : R[i].First > R[i].Last

----------------------------------------------------------------------------
(* Properties.                                                             *)

\* C1: in every pool that passed decode-time validation, and after any
\* sequence of InsertIP / RemoveIP calls on it, the range list is sorted by
\* First (I1), has no overlapping or adjacent neighbours (I2) and lies inside
\* the subnet (I3).
C1_InvariantsPreserved ==
    phase = "loaded" => I1(fip.IPRanges) /\ I2(fip.IPRanges) /\ I3(fip)

\* C2: the range list refines the set of available addresses: a successful
\* InsertIP(a) adds exactly a, a successful RemoveIP(a) removes exactly a, and
\* a call that returns false leaves the set as it was.
C2_RefinesSet ==
    /\ Inserted /\ call.ret => Avail(fip) = Avail(old) \cup {call.ip}
    /\ Removed /\ call.ret => Avail(fip) = Avail(old) \ {call.ip}
    /\ (Inserted \/ Removed) /\ ~call.ret => Avail(fip) = Avail(old)

\* The call c of a thread, run alone on the pool p.
RunAlone(p, c) == IF c.op = "InsertIP" THEN InsertIP(p, c.ip) ELSE RemoveIP(p, c.ip)

\* C3: when several threads call InsertIP and RemoveIP on one pool at the
\* same time, no call fails on a list another call altered under it, and once
\* the calls have returned, their results and the list are those of the calls
\* run one after the other in some order.
C3_ConcurrentCallsSerialize ==
    /\ \A t \in Threads : thr[t].pc # "panic"
    /\ (\A t \in Threads : thr[t].pc = "done") =>
         \E a \in Threads, b \in Threads :
            /\ a # b
            /\ LET r1 == RunAlone(old, thr[a])
                   r2 == RunAlone([old EXCEPT !.IPRanges = r1.IPRanges], thr[b])
               IN  /\ r1.ret = thr[a].ret
                   /\ r2.ret = thr[b].ret
                   /\ fip.IPRanges = r2.IPRanges

\* C3, its last part: two RemoveIP(a) at the same time, of an available a,
\* never both return true.
C3_NoDoubleReservation ==
    ~ \E a \in Threads, b \in Threads :
        /\ a # b
        /\ thr[a].pc = "done" /\ thr[b].pc = "done"
        /\ thr[a].op = "RemoveIP" /\ thr[b].op = "RemoveIP"
        /\ thr[a].ip = thr[b].ip
        /\ thr[a].ret /\ thr[b].ret

\* C4: on a pool satisfying I1-I3, RemoveIP(a) of an available address a
\* returns true, and the InsertIP(a) that follows it returns true and leaves
\* the range list exactly as it was before the two calls.  In the second
\* conjunct old is the pool before the RemoveIP and the step is the InsertIP
\* that follows it.
C4_RemoveThenInsertRestores ==
    [][/\ (/\ phase = "loaded"
           /\ I1(fip.IPRanges) /\ I2(fip.IPRanges) /\ I3(fip)
           /\ call'.op = "RemoveIP" /\ Contains(fip, call'.ip))
          => call'.ret
       /\ (/\ Removed /\ call.ret
           /\ I1(old.IPRanges) /\ I2(old.IPRanges) /\ I3(old)
           /\ call'.op = "InsertIP" /\ call'.ip = call.ip)
          => call'.ret /\ fip'.IPRanges = old.IPRanges]_vars

\* C5: InsertIP of an address already inside some range, and RemoveIP of an
\* in-subnet address inside no range, return false and leave the list as it
\* was.
C5_NoOpsChangeNothing ==
    /\ Inserted /\ Contains(old, call.ip) => ~call.ret /\ fip = old
    /\ (Removed /\ NetContains(IPNet(old), call.ip) /\ ~Contains(old, call.ip))
           => ~call.ret /\ fip = old

\* C6: InsertIP and RemoveIP of an address outside the subnet return false
\* and leave the range list as it was.
C6_OutOfSubnetRejected ==
    ((Inserted \/ Removed) /\ ~NetContains(IPNet(old), call.ip))
        => ~call.ret /\ fip = old

\* C6 witness: an InsertIP of the address right below the first range, which
\* is outside the subnet, was rejected on a pool that has ranges.
C6_Witness ==
    /\ Inserted /\ ~call.ret /\ ~NetContains(IPNet(old), call.ip)
    /\ Len(old.IPRanges) > 0 /\ old.IPRanges[1].First = call.ip + 1

\* C4 witness: a RemoveIP split a single range of a pool satisfying I1-I3
\* at an interior address, and the InsertIP of that address restores it.
C4_Witness ==
    /\ Removed /\ call.ret
    /\ I1(old.IPRanges) /\ I2(old.IPRanges) /\ I3(old)
    /\ Len(old.IPRanges) = 1 /\ Len(fip.IPRanges) = 2
    /\ InsertIP(fip, call.ip) = [IPRanges |-> old.IPRanges, ret |-> TRUE]

\* C7 as claimed: InsertIP returns false for an address that no successful
\* RemoveIP took out of the pool, so right after the pool is loaded every
\* InsertIP returns false and adds nothing to the configured addresses.
C7_UnheldReleaseRejected ==
    [][(Decoded /\ call'.op = "InsertIP")
       => ~call'.ret /\ Avail(fip') \subseteq Avail(fip)]_vars

\* C7 as amended: InsertIP keeps no record of the addresses held.  It
\* returns true for every address of the subnet that is in no range, whether
\* or not that address was ever removed; what stays true of the ranges is
\* only that they lie inside the subnet (I3).
C7_InsertAcceptsEveryAbsentSubnetAddress ==
    /\ (Inserted /\ NetContains(IPNet(old), call.ip) /\ ~Contains(old, call.ip))
           => call.ret
    /\ phase = "loaded" => I3(fip)

\* C7 witness: the gateway, never removed and in no range of the loaded
\* pool, was released into it and is now available.
C7_Witness ==
    /\ Inserted /\ call.ret /\ call.ip = fip.Gateway[1]
    /\ ~Contains(old, call.ip) /\ Contains(fip, call.ip)
    /\ Len(old.IPRanges) = 0

\* The decode got as far as fipCheck: no field was missing and every text
\* of ips parsed, so fip.IPRanges holds the declared ranges in their order.
Validated == Decoded /\ err \in {ErrNone, ErrNotInSubnet, ErrOrder}

\* C8: validation accepts exactly the documents whose ranges all lie in the
\* subnet and whose consecutive ranges satisfy First_i > Last_{i-1} + 1; a
\* range-out-of-subnet error means some range is outside the subnet, an
\* order-or-overlap error that some pair violates the order.
C8_ValidationExact ==
    Validated =>
        /\ err = ErrNone <=> (I3(fip) /\ I2(fip.IPRanges))
        /\ err = ErrNotInSubnet => ~I3(fip)
        /\ err = ErrOrder => ~I2(fip.IPRanges)

\* C9: a document with a reversed range (all of its ranges inside the
\* subnet) fails with the order error, so no loaded pool has one.
C9_ReversedRangeRejected ==
    (Validated /\ I3(fip) /\ Reversed(fip.IPRanges)) => err = ErrOrder

\* C10: a decode that fails leaves the pool it decoded into as it was.
C10_FailedDecodeChangesNothing ==
    (Decoded /\ ~call.ret) => fip = old

\* C11: every loaded pool, and every pool reached from it by InsertIP and
\* RemoveIP, encodes to a document that decodes into a fresh pool without
\* error and with the same range list, routable subnet, mask, gateway and
\* VLAN.
C11_RoundTrip ==
    phase = "loaded" =>
        UnmarshalJSON(ZeroPool, MarshalJSON(fip)) = [fip |-> fip, err |-> ErrNone]

\* The pools of a slice, each with the number of times it occurs.
PoolBag(S) == [p \in {S[i] : i \in 1 .. Len(S)} |-> Cardinality({i \in 1 .. Len(S) : S[i] = p})]

\* The first addresses of a slice never go down.
Ascending(S) ==
    \A i \in 1 .. Len(S) - 1 :
        FirstIP(S[i].RoutableSubnet[1]) <= FirstIP(S[i + 1].RoutableSubnet[1])

\* Less is true exactly when the first address of the one routable subnet
\* is below that of the other; it is irreflexive, asymmetric and transitive,
\* and pools with equal first addresses are not Less either way.
LessIsStrictOrder ==
    \A i \in 1 .. Len(s), j \in 1 .. Len(s) :
        /\ Less(s, i, j) <=> FirstIP(s[i].RoutableSubnet[1]) < FirstIP(s[j].RoutableSubnet[1])
        /\ ~Less(s, i, i)
        /\ Less(s, i, j) => ~Less(s, j, i)
        /\ FirstIP(s[i].RoutableSubnet[1]) = FirstIP(s[j].RoutableSubnet[1])
              => ~Less(s, i, j) /\ ~Less(s, j, i)
        /\ \A k \in 1 .. Len(s) : Less(s, i, j) /\ Less(s, j, k) => Less(s, i, k)

\* C12: Less is the strict order of the first addresses of the routable
\* subnets, and a sort by Less and Swap of any slice of pools ends with the
\* same pools in ascending order of first address, whatever order they were
\* given in.
C12_PoolOrdering ==
    /\ [](LessIsStrictOrder /\ PoolBag(s) = PoolBag(s0))
    /\ <>[](Ascending(s) /\ \A i \in 1 .. Len(s), j \in 1 .. Len(s) : i < j => ~Less(s, j, i))

\* C12 witness: a slice of the greatest length given in descending order,
\* with two pools of equal first address in it, has been brought in order.
C12_Witness ==
    /\ Len(s) = MaxPools
    /\ \A i \in 1 .. Len(s0) - 1 : ~Less(s0, i, i + 1)
    /\ Less(s0, Len(s0), 1)
    /\ \E i \in 1 .. Len(s), j \in 1 .. Len(s) :
          i # j /\ ~Less(s, i, j) /\ ~Less(s, j, i) /\ s[i] # s[j]
    /\ s # s0
    /\ Ascending(s)

\* C13: the store is called with create for address a only by a caller
\* whose RemoveIP(a) has returned true, with delete for a only by a caller
\* whose InsertIP(a) has returned true, never by a caller whose pool step
\* returned false, and never by a caller that holds the pool's lock.
C13_StoreAfterPool ==
    [][store' # store =>
         \E t \in Threads :
            /\ store'.last.by = t
            /\ store'.last.ip = job[t].ip
            /\ job[t].pc = "unlocked"
            /\ job[t].ret
            /\ lock # t /\ lock' # t
            /\ \/ job[t].op = "allocate" /\ store'.last.op = "create"
               \/ job[t].op = "release" /\ store'.last.op = "delete"]_vars

\* C13 witness: one caller has reserved an address and created its record;
\* the other caller's RemoveIP of the same address has returned false, and
\* it has given the lock back and is about to give up.
C13_Witness ==
    \E t \in Threads, u \in Threads :
        /\ t # u
        /\ store.last = [op |-> "create", ip |-> job[u].ip, by |-> t]
        /\ store.last.ip \in store.records
        /\ ~Contains(fip, store.last.ip)
        /\ job[u].pc = "unlocked" /\ job[u].op = "allocate" /\ ~job[u].ret

\* The last call was InsertIP(a), on a pool satisfying I1-I2, of an address
\* a of the subnet that was in no range.
InsertedAbsent ==
    /\ Inserted
    /\ I1(old.IPRanges) /\ I2(old.IPRanges)
    /\ NetContains(IPNet(old), call.ip)
    /\ ~Contains(old, call.ip)

\* Address a is exactly one above the Last of range i of R.
RightAbove(R, i, a) == i \in 1 .. Len(R) /\ R[i].Last + 1 = a

\* Address a is exactly one below the First of range i of R.
RightBelow(R, i, a) == i \in 1 .. Len(R) /\ R[i].First - 1 = a

\* C14: InsertIP(a) returns true and: between two ranges it touches both, it
\* replaces them by the one range from the First of the one to the Last of
\* the other; touching one range only, it extends that range by a; touching
\* none, it puts the singleton [a,a] at its sorted position.  No other range
\* changes.
C14_MergeOnInsert ==
    InsertedAbsent =>
        LET R == old.IPRanges
            a == call.ip
            N == fip.IPRanges
        IN  /\ call.ret
            /\ \A i \in 1 .. Len(R) :
                 /\ RightAbove(R, i, a) /\ RightBelow(R, i + 1, a)
                      => N = SubSeq(R, 1, i - 1)
                             \o <<[First |-> R[i].First, Last |-> R[i + 1].Last]>>
                             \o SubSeq(R, i + 2, Len(R))
                 /\ RightAbove(R, i, a) /\ ~RightBelow(R, i + 1, a)
                      => N = [R EXCEPT ![i].Last = a]
                 /\ RightBelow(R, i, a) /\ ~RightAbove(R, i - 1, a)
                      => N = [R EXCEPT ![i].First = a]
            /\ (\A i \in 1 .. Len(R) : ~RightAbove(R, i, a) /\ ~RightBelow(R, i, a))
                 => N = InsertAt(R, Cardinality({i \in 1 .. Len(R) : R[i].First < a}) + 1,
                                 [First |-> a, Last |-> a])

\* C15: RemoveIP(a) returns true on the range that contains a and changes
\* that range alone: the singleton [a,a] is deleted; a range that starts at a
\* then starts at a+1; a range that ends at a then ends at a-1; a range with
\* a strictly inside is replaced, in its place, by [First, a-1] and
\* [a+1, Last].
C15_RemoveCases ==
    (Removed /\ NetContains(IPNet(old), call.ip) /\ Contains(old, call.ip)) =>
        LET R == old.IPRanges
            a == call.ip
            i == CHOOSE k \in 1 .. Len(R) :
                    /\ RangeContains(R[k], a)
                    /\ \A j \in 1 .. k - 1 : ~RangeContains(R[j], a)
            before == SubSeq(R, 1, i - 1)
            after == SubSeq(R, i + 1, Len(R))
        IN  /\ call.ret
            /\ fip.IPRanges =
                 IF R[i].First = a /\ R[i].Last = a THEN before \o after
                 ELSE IF R[i].First = a
                      THEN before \o <<[First |-> a + 1, Last |-> R[i].Last]>> \o after
                 ELSE IF R[i].Last = a
                      THEN before \o <<[First |-> R[i].First, Last |-> a - 1]>> \o after
                 ELSE before \o <<[First |-> R[i].First, Last |-> a - 1],
                                  [First |-> a + 1, Last |-> R[i].Last]>> \o after

\* C15 witness: a RemoveIP split a range at an address strictly inside it.
C15_Witness ==
    /\ Removed /\ call.ret
    /\ Len(old.IPRanges) = 1
    /\ old.IPRanges[1].First < call.ip /\ call.ip < old.IPRanges[1].Last
    /\ fip.IPRanges = <<[First |-> old.IPRanges[1].First, Last |-> call.ip - 1],
                        [First |-> call.ip + 1, Last |-> old.IPRanges[1].Last]>>

\* The "field is empty" errors of the required fields a document lacks.
MissingFieldErrors(conf) ==
    {e \in {ErrRoutableSubnet, ErrGateway, ErrSubnet} :
        \/ e = ErrRoutableSubnet /\ conf.routableSubnet = None
        \/ e = ErrGateway /\ conf.gateway = None
        \/ e = ErrSubnet /\ conf.subnet = None}

\* C16: a document that lacks routableSubnet, gateway or subnet fails,
\* whatever its ips, with the "field is empty" error of a field it lacks, and
\* the three errors differ; a document with the three fields and no ips
\* decodes to a pool with no available address.
C16_MissingFields ==
    (Decoded /\ call.conf.json) =>
        /\ MissingFieldErrors(call.conf) # {} => err \in MissingFieldErrors(call.conf)
        /\ Cardinality({ErrRoutableSubnet, ErrGateway, ErrSubnet}) = 3
        /\ (MissingFieldErrors(call.conf) = {} /\ call.conf.ips = <<>> /\ old = ZeroPool)
              => err = ErrNone /\ fip.IPRanges = <<>> /\ Avail(fip) = {}

\* C16 witness: a document with routableSubnet and subnet, a parsable ips
\* entry and no gateway failed with the gateway error.
C16_Witness ==
    /\ Decoded /\ call.conf.json
    /\ MissingFieldErrors(call.conf) = {ErrGateway}
    /\ Len(call.conf.ips) = 1 /\ ParseIPRange(call.conf.ips[1]) # None
    /\ err = ErrGateway

\* C17: decoding the document a pool was loaded from into that pool a second
\* time succeeds and leaves the pool as the first decode left it.
C17_RepeatDecode ==
    [][(Decoded /\ call.ret /\ call'.op = "UnmarshalJSON" /\ call'.conf = call.conf)
       => call'.ret /\ fip' = fip]_vars

\* C18: on a pool satisfying I1-I3, InsertIP(a) of an address a of the
\* subnet that is in no range returns true, and the RemoveIP(a) that follows
\* it returns true and leaves the range list exactly as it was before the
\* two calls.  In the second conjunct old is the pool before the InsertIP
\* and the step is the RemoveIP that follows it.
C18_InsertThenRemoveRestores ==
    [][/\ (/\ phase = "loaded"
           /\ I1(fip.IPRanges) /\ I2(fip.IPRanges) /\ I3(fip)
           /\ call'.op = "InsertIP"
           /\ NetContains(IPNet(fip), call'.ip) /\ ~Contains(fip, call'.ip))
          => call'.ret
       /\ (/\ Inserted /\ call.ret
           /\ I1(old.IPRanges) /\ I2(old.IPRanges) /\ I3(old)
           /\ ~Contains(old, call.ip)
           /\ call'.op = "RemoveIP" /\ call'.ip = call.ip)
          => call'.ret /\ fip'.IPRanges = old.IPRanges]_vars

\* The range RemoveIP(ip) works on in the pool p: the first range that
\* contains ip (the pool holds one whenever RemoveIP returns true).
RemoveTarget(p, ip) == p.IPRanges[RemoveFind(p.IPRanges, ip, 1)]

\* RemoveIP(ip) computes ip + 1 on the range r: it moves First up (ip is the
\* First of a range of several addresses) or splits the range.
ComputesSucc(r, ip) == r.First # r.Last /\ (r.First = ip \/ r.Last # ip)

\* RemoveIP(ip) computes ip - 1 on the range r: it moves Last down or splits.
ComputesPred(r, ip) == r.First # r.Last /\ r.First # ip

\* C19: address arithmetic never wraps around.  An accepted document has
\* First_i > Last_{i-1} + 1 for every consecutive pair in exact arithmetic,
\* also when Last_{i-1} is the maximum address; Minus is the exact signed
\* difference of every pair of addresses; and RemoveIP computes addr + 1
\* only below the range's Last and addr - 1 only above the range's First.
C19_NoWrapAround ==
    /\ [](Validated /\ err = ErrNone =>
            \A i \in 2 .. Len(fip.IPRanges) :
                fip.IPRanges[i].First > fip.IPRanges[i - 1].Last + 1)
    /\ [](\A a, b \in Addrs :
            Minus(a, b) + b = a /\ Minus(a, b) \in -AddrMax .. AddrMax)
    /\ [][call'.op = "RemoveIP" /\ call'.ret =>
            LET r == RemoveTarget(fip, call'.ip)
            IN  /\ ComputesSucc(r, call'.ip) => call'.ip < r.Last
                /\ ComputesPred(r, call'.ip) => call'.ip > r.First]_vars

====
